---- MODULE Spec2Model ----
(***************************************************************************)
(* Step-sequencing state machine of the ergonomics / SOP monitoring        *)
(* backend: the analysis sessions of backend/api/analysis_controller.py,   *)
(* the streaming detector of backend/api/tracking_controller.py and the    *)
(* ProcessAnalysisService of backend/process_analysis_service.py.          *)
(*                                                                         *)
(* Conventions.  A Python value that may be None is a sequence of length   *)
(* at most one: <<>> is None (or an absent dict key), <<v>> is v.  Times   *)
(* are integers read from the clock `now`.  Confidences are hundredths     *)
(* (0.5 is 50).  Adherence percentages are hundredths of a percent.        *)
(***************************************************************************)
EXTENDS Integers, Sequences, FiniteSets, TLC

(***************************************************************************)
(* Bounds of the model.                                                    *)
(***************************************************************************)
\* recorded logs drawn for the adherence report: at most MaxEvents events,
\* each with a duration in 0..MaxElapsed and a target in 1..MaxTarget
MaxEvents == 2
MaxElapsed == 7
MaxTarget == 3
MaxPending == 1

\* the longest process of the store has MaxSteps steps
MaxSteps == 2

\* uuid4 session ids that start_analysis can hand out
SessionIds == {"s1"}

\* the request threads that serve POST /processes/<process_id>/steps
SaverIds == {"t1", "t2"}

\* inserts stop when a process has MaxRows active rows
MaxRows == 4

(***************************************************************************)
(* Program constants.                                                      *)
(***************************************************************************)
\* ProcessAnalysisService.conf_threshold = 0.5, and the conf_threshold=0.5
\* default of check_hand_in_zone, in hundredths
conf_threshold == 50
\* ProcessAnalysisService.hand_offset_pixels
hand_offset_pixels == 30

None == <<>>
Some(v) == <<v>>

(***************************************************************************)
(* The relational store (an external collaborator): its rows are fixed     *)
(* data here.  Zone 1 and zone 2 share the edge x = 200.  Process 1 visits *)
(* zone 1 then zone 2, process 2 visits zone 1 twice, process 3 has no     *)
(* steps, and no other process id exists.  Environment 2 holds zone 1 and   *)
(* zone 3, a row whose Xstart lies to the right of its Xend: create_zone    *)
(* stores the coordinates it is given.                                     *)
(***************************************************************************)
ZoneIds == {1, 2}
EnvironmentIds == {1}
InvertedEnvironmentIds == {2}
RequestProcessIds == {1, 2, 3, 4}

ZoneRow(z) ==
    IF z = 1
    THEN [Id |-> 1, ZoneName |-> "Zone A",
          Xstart |-> 100, Ystart |-> 100, Xend |-> 200, Yend |-> 200]
    ELSE IF z = 2
    THEN [Id |-> 2, ZoneName |-> "Zone B",
          Xstart |-> 200, Ystart |-> 100, Xend |-> 300, Yend |-> 200]
    ELSE [Id |-> 3, ZoneName |-> "Zone C",
          Xstart |-> 300, Ystart |-> 100, Xend |-> 250, Yend |-> 200]

get_zones_for_environment(environment_id) ==
    IF environment_id \in InvertedEnvironmentIds
    THEN <<ZoneRow(1), ZoneRow(3)>>
    ELSE <<ZoneRow(1), ZoneRow(2)>>

\* the rows of the Processes table
ProcessIds == {1, 2, 3}

get_process_by_id(process_id) ==
    IF process_id \in ProcessIds THEN Some([Id |-> process_id]) ELSE None

StepRow(n, z, d) ==
    [StepNumber |-> n, StepName |-> n, TargetZoneId |-> z,
     ZoneName |-> ZoneRow(z).ZoneName, Duration |-> d]

\* the active rows of the ProcessSteps table before any edit
StoredProcessSteps(process_id) ==
    CASE process_id = 1 -> <<StepRow(1, 1, 1), StepRow(2, 2, 1)>>
      [] process_id = 2 -> <<StepRow(1, 1, 1), StepRow(2, 1, 1)>>
      [] OTHER -> <<>>

(***************************************************************************)
(* State.                                                                  *)
(***************************************************************************)
VARIABLES
    active_sessions,          \* analysis_controller.active_sessions
    issued,                   \* the uuid4 values handed out so far
    session_zone_tracking,    \* analysis_controller.session_zone_tracking
    current_zone_detections,  \* generate_frames' local latch, per stream
    stream_pc,                \* a stream thread inside check_step_advancement
    frame_pc,                 \* a request thread inside check_step_progress
    dwell_done,               \* history: zones whose dwell, as the frames of
                              \* process_frame show it, gave a StepEvent
    now,                      \* time.time(); the handlers only store it and
                              \* subtract it, and Spec holds it at one reading
    tracker,                  \* the globals of sequential_process_tracker.py,
                              \* a program of its own
    reported,                 \* per session, the path the zone reporter uses
                              \* and how many signals of its run it delivered
    ProcessSteps,             \* the active rows of the ProcessSteps table
                              \* that are committed, per process, in the
                              \* order of StepNumber
    saving                    \* per request thread of save_process_steps:
                              \* the transaction it has open and the HTTP
                              \* status of its last reply

vars == <<active_sessions, issued, session_zone_tracking,
          current_zone_detections, stream_pc, frame_pc, dwell_done, now,
          tracker, reported, ProcessSteps, saving>>

\* DatabaseService.get_process_steps
get_process_steps(process_id) ==
    IF process_id \in DOMAIN ProcessSteps
    THEN ProcessSteps[process_id]
    ELSE <<>>

\* sequential_process_tracker.py lines 18-23; results, target_zone_id,
\* hand_detected and hand_type are assigned in the loop and have no value
\* before it
NewTracker ==
    [current_step |-> 0,
     process_complete |-> FALSE,
     step_times |-> <<>>,
     process_start_time |-> None,
     in_zone |-> FALSE,
     entry_time |-> None,
     results |-> <<>>,
     target_zone_id |-> None,
     hand_detected |-> FALSE,
     hand_type |-> None]

\* ProcessAnalysisService.__init__
NewService ==
    [is_tracking |-> FALSE,
     current_process |-> None,
     current_zones |-> <<>>,
     process_steps |-> <<>>,
     session_data |-> [start_time |-> None, step_events |-> <<>>,
                       current_step |-> 0]]

Init ==
    /\ active_sessions = <<>>
    /\ issued = {}
    /\ session_zone_tracking = <<>>
    /\ current_zone_detections = [s \in SessionIds |-> {}]
    /\ tracker = NewTracker
    /\ reported = [s \in SessionIds |-> [path |-> None, count |-> 0]]
    /\ ProcessSteps = [process_id \in ProcessIds |->
                          StoredProcessSteps(process_id)]
    /\ saving = [t \in SaverIds |-> [txn |-> None, status |-> None]]
    /\ stream_pc = [s \in SessionIds |-> None]
    /\ frame_pc = [s \in SessionIds |-> None]
    /\ dwell_done = [s \in SessionIds |-> {}]
    /\ now = 0

(***************************************************************************)
(* ProcessAnalysisService.load_process: the service after loading, or None *)
(* when the process does not exist (the method returns False).             *)
(***************************************************************************)
load_process(service, environment_id, process_id) ==
    IF get_process_by_id(process_id) = None
    THEN None
    ELSE Some([service EXCEPT
                 !.current_process = get_process_by_id(process_id),
                 !.current_zones = get_zones_for_environment(environment_id),
                 !.process_steps = get_process_steps(process_id)])

\* POST /analysis/start when uuid4 returns session_id
start_analysis_as(session_id, environment_id, process_id) ==
    /\ LET loaded == load_process(NewService, environment_id, process_id) IN
       IF loaded = None
       THEN UNCHANGED <<active_sessions, issued>>
       ELSE /\ issued' = issued \cup {session_id}
            /\ active_sessions' =
                  [x \in DOMAIN active_sessions \cup {session_id} |->
                     IF x = session_id
                     THEN [service |-> loaded[1],
                           environment_id |-> environment_id,
                           process_id |-> process_id,
                           status |-> "ready",
                           results |-> None]
                     ELSE active_sessions[x]]
    /\ UNCHANGED <<session_zone_tracking, current_zone_detections,
                   stream_pc, frame_pc, dwell_done, now>>
    /\ UNCHANGED <<tracker, reported, ProcessSteps, saving>>

\* POST /analysis/start
start_analysis(environment_id, process_id) ==
    \E session_id \in SessionIds \ issued :
        start_analysis_as(session_id, environment_id, process_id)

\* ProcessAnalysisService.start_tracking without the test of process_steps
\* in line 54: a process with no steps would start
service_start_tracking_any_steps(service) ==
    IF service.current_process = None
    THEN None
    ELSE Some([service EXCEPT
                 !.is_tracking = TRUE,
                 !.session_data = [start_time |-> Some(now),
                                   step_events |-> <<>>,
                                   current_step |-> 0]])

(***************************************************************************)
(* ProcessAnalysisService.start_tracking: the service after the call, or   *)
(* None when it raises ValueError (no process loaded, or no steps).        *)
(***************************************************************************)
service_start_tracking(service) ==
    IF service.current_process = None \/ service.process_steps = <<>>
    THEN None
    ELSE Some([service EXCEPT
                 !.is_tracking = TRUE,
                 !.session_data = [start_time |-> Some(now),
                                   step_events |-> <<>>,
                                   current_step |-> 0]])

\* start_tracking if it loaded the steps of the session's process again
start_tracking_session_rereads(session) ==
    LET started == service_start_tracking(
                       [session.service EXCEPT
                          !.process_steps = get_process_steps(session.process_id)])
    IN  IF started = None
        THEN session
        ELSE [session EXCEPT !.service = started[1], !.status = "tracking"]

\* the session after POST /analysis/start-tracking/<session_id> found it
start_tracking_session(session) ==
    LET started == service_start_tracking(session.service) IN
    IF started = None
    THEN session
    ELSE [session EXCEPT !.service = started[1], !.status = "tracking"]

\* the HTTP status of POST /analysis/start-tracking/<session_id>
start_tracking_code(session_id) ==
    IF session_id \notin DOMAIN active_sessions THEN 404
    ELSE IF service_start_tracking(active_sessions[session_id].service) = None
         THEN 500
         ELSE 200

\* POST /analysis/start-tracking/<session_id>
start_tracking(session_id) ==
    /\ active_sessions' =
          IF session_id \notin DOMAIN active_sessions
          THEN active_sessions
          ELSE [active_sessions EXCEPT
                  ![session_id] = start_tracking_session(@)]
    /\ dwell_done' =
          IF start_tracking_code(session_id) = 200
          THEN [dwell_done EXCEPT ![session_id] = {}]
          ELSE dwell_done
    /\ UNCHANGED <<issued, session_zone_tracking, current_zone_detections,
                   stream_pc, frame_pc, now>>
    /\ UNCHANGED <<tracker, reported, ProcessSteps, saving>>

(***************************************************************************)
(* ProcessAnalysisService.calculate_adherence_metrics.  The code computes  *)
(* in floating point and rounds to two places; here every percentage is an *)
(* exact fraction num/den rounded to hundredths of a percent.              *)
(***************************************************************************)
RoundDiv(num, den) == (2 * num + den) \div (2 * den)

\* lines 289-295 with the partial score counted from 100 - ratio * 100
timing_score_from_zero(event) ==
    LET target_time == event.target_duration
        actual_time == event.duration
    IN  IF 10 * actual_time <= 12 * target_time
        THEN [num |-> 100, den |-> 1]
        ELSE IF actual_time <= 2 * target_time
             THEN [num |-> IF 100 * target_time - 100 * actual_time > 0
                           THEN 100 * target_time - 100 * actual_time
                           ELSE 0,
                   den |-> target_time]
             ELSE [num |-> 0, den |-> 1]

\* the timing score of one event, as a fraction [num, den] of a percent
timing_score(event) ==
    LET target_time == event.target_duration
        actual_time == event.duration
    IN  IF 10 * actual_time <= 12 * target_time
        THEN [num |-> 100, den |-> 1]
        ELSE IF actual_time <= 2 * target_time
             THEN [num |-> IF 200 * target_time - 100 * actual_time > 0
                           THEN 200 * target_time - 100 * actual_time
                           ELSE 0,
                   den |-> target_time]
             ELSE [num |-> 0, den |-> 1]

RECURSIVE sum_timing_scores(_)
sum_timing_scores(events) ==
    IF events = <<>>
    THEN [num |-> 0, den |-> 1]
    ELSE LET h == timing_score(Head(events))
             t == sum_timing_scores(Tail(events))
         IN  [num |-> h.num * t.den + t.num * h.den, den |-> h.den * t.den]

RECURSIVE sum_durations(_)
sum_durations(steps) ==
    IF steps = <<>> THEN 0 ELSE Head(steps).Duration + sum_durations(Tail(steps))

\* calculate_adherence_metrics without the early return of lines 273-274:
\* an empty log gets the report of a run that scored nothing
calculate_adherence_metrics_no_early_return(service, total_time) ==
    [overall_adherence |-> 0,
     completion_adherence |-> 0,
     timing_adherence |-> 0,
     completed_steps |-> Len(service.session_data.step_events),
     total_steps |-> Len(service.process_steps),
     total_time |-> 100 * total_time,
     target_total_time |-> sum_durations(service.process_steps),
     step_details |-> service.session_data.step_events]

\* calculate_adherence_metrics with the weights of line 302 exchanged:
\* completion counts 0.3 and timing 0.7
calculate_adherence_metrics_weights_exchanged(service, total_time) ==
    LET events == service.session_data.step_events
        total_steps == Len(service.process_steps)
        completed_steps == Len(events)
        scores == sum_timing_scores(events)
    IN  IF events = <<>>
        THEN [adherence_score |-> 0, message |-> "No steps completed"]
        ELSE [overall_adherence |->
                 RoundDiv(100 * (300 * completed_steps * completed_steps * scores.den
                                 + 7 * scores.num * total_steps),
                          10 * total_steps * completed_steps * scores.den),
              completion_adherence |->
                 RoundDiv(100 * 100 * completed_steps, total_steps),
              timing_adherence |->
                 RoundDiv(100 * scores.num, scores.den * completed_steps),
              completed_steps |-> completed_steps,
              total_steps |-> total_steps,
              total_time |-> 100 * total_time,
              target_total_time |-> sum_durations(service.process_steps),
              step_details |-> events]

calculate_adherence_metrics(service, total_time) ==
    LET events == service.session_data.step_events
        total_steps == Len(service.process_steps)
        completed_steps == Len(events)
        scores == sum_timing_scores(events)
    IN  IF events = <<>>
        THEN [adherence_score |-> 0, message |-> "No steps completed"]
        ELSE [overall_adherence |->
                 RoundDiv(100 * (700 * completed_steps * completed_steps * scores.den
                                 + 3 * scores.num * total_steps),
                          10 * total_steps * completed_steps * scores.den),
              completion_adherence |->
                 RoundDiv(100 * 100 * completed_steps, total_steps),
              timing_adherence |->
                 RoundDiv(100 * scores.num, scores.den * completed_steps),
              completed_steps |-> completed_steps,
              total_steps |-> total_steps,
              total_time |-> 100 * total_time,
              target_total_time |-> sum_durations(service.process_steps),
              step_details |-> events]

(***************************************************************************)
(* ProcessAnalysisService.stop_tracking: what it returns (None when the    *)
(* service is not tracking) and the service after the call.                *)
(***************************************************************************)
stop_tracking_result(service) ==
    IF ~service.is_tracking
    THEN None
    ELSE Some(calculate_adherence_metrics(
                 [service EXCEPT !.is_tracking = FALSE],
                 now - service.session_data.start_time[1]))

stop_tracking(service) ==
    IF ~service.is_tracking
    THEN service
    ELSE [service EXCEPT !.is_tracking = FALSE]

\* the session after POST /analysis/stop/<session_id> found it
stop_analysis_session(session) ==
    [session EXCEPT
       !.service = stop_tracking(session.service),
       !.status = "completed",
       !.results = Some(stop_tracking_result(session.service))]

\* the HTTP status of POST /analysis/stop/<session_id>
stop_analysis_code(session_id) ==
    IF session_id \notin DOMAIN active_sessions THEN 404 ELSE 200

\* POST /analysis/stop/<session_id> if it stopped every registered session
stop_analysis_every_session(session_id) ==
    /\ active_sessions' =
          IF session_id \notin DOMAIN active_sessions
          THEN active_sessions
          ELSE [x \in DOMAIN active_sessions |->
                  stop_analysis_session(active_sessions[x])]
    /\ UNCHANGED <<issued, session_zone_tracking, current_zone_detections,
                   stream_pc, frame_pc, dwell_done, now>>
    /\ UNCHANGED <<tracker, reported, ProcessSteps, saving>>

\* POST /analysis/stop/<session_id>
stop_analysis(session_id) ==
    /\ active_sessions' =
          IF session_id \notin DOMAIN active_sessions
          THEN active_sessions
          ELSE [active_sessions EXCEPT
                  ![session_id] = stop_analysis_session(@)]
    /\ UNCHANGED <<issued, session_zone_tracking, current_zone_detections,
                   stream_pc, frame_pc, dwell_done, now>>
    /\ UNCHANGED <<tracker, reported, ProcessSteps, saving>>

\* GET /analysis/status/<session_id>: the HTTP status and the body
get_analysis_status_code(session_id) ==
    IF session_id \notin DOMAIN active_sessions THEN 404 ELSE 200

status_data(session_id) ==
    LET session == active_sessions[session_id]
        service == session.service
    IN  [sessionId |-> session_id,
         status |-> session.status,
         isActive |-> service.is_tracking,
         currentStep |-> service.session_data.current_step,
         stepEvents |-> service.session_data.step_events,
         elapsedTime |-> IF /\ service.is_tracking
                            /\ service.session_data.start_time # None
                         THEN now - service.session_data.start_time[1]
                         ELSE 0]

get_analysis_status(session_id) ==
    /\ UNCHANGED vars

\* the HTTP status of DELETE /analysis/cleanup/<session_id>
cleanup_session_code(session_id) == 200

\* lines 323-328 without the del of line 330: the service is stopped and
\* the session stays registered
cleanup_session_without_del(session_id) ==
    /\ active_sessions' =
          IF session_id \notin DOMAIN active_sessions
          THEN active_sessions
          ELSE [active_sessions EXCEPT
                  ![session_id].service = stop_tracking(@)]
    /\ UNCHANGED <<issued, session_zone_tracking, current_zone_detections,
                   stream_pc, frame_pc, dwell_done, now>>
    /\ UNCHANGED <<tracker, reported, ProcessSteps, saving>>

\* DELETE /analysis/cleanup/<session_id>
cleanup_session(session_id) ==
    /\ active_sessions' =
          [x \in DOMAIN active_sessions \ {session_id} |-> active_sessions[x]]
    /\ UNCHANGED <<issued, session_zone_tracking, current_zone_detections,
                   stream_pc, frame_pc, dwell_done, now>>
    /\ UNCHANGED <<tracker, reported, ProcessSteps, saving>>

(***************************************************************************)
(* Frames.  A detected person is the pair of wrist keypoints [x, y, conf]  *)
(* (COCO indices 9 and 10); a frame holds no person or one.                *)
(***************************************************************************)
Wrist(x, y, conf) == [x |-> x, y |-> y, conf |-> conf]
LeftWrists == {Wrist(170, 100, 90), Wrist(230, 100, 90),
               Wrist(400, 100, 90), Wrist(170, 100, 50)}
RightWrists == {Wrist(400, 100, 90), Wrist(230, 100, 90)}
Persons == [left_wrist : LeftWrists, right_wrist : RightWrists]
Frames == {<<>>} \cup {<<p>> : p \in Persons}

\* the zone objects a /stream client passes in its zones parameter
StreamZone(z) ==
    [id |-> z, name |-> ZoneRow(z).ZoneName,
     x |-> ZoneRow(z).Xstart, y |-> ZoneRow(z).Ystart,
     width |-> ZoneRow(z).Xend - ZoneRow(z).Xstart,
     height |-> ZoneRow(z).Yend - ZoneRow(z).Ystart]

\* one wrist of tracking_controller.check_hand_in_zone
wrist_in_zone(w, zone, threshold) ==
    /\ w.conf > threshold
    /\ zone.x <= w.x /\ w.x <= zone.x + zone.width
    /\ zone.y <= w.y /\ w.y <= zone.y + zone.height

\* tracking_controller.check_hand_in_zone: in_zone, the first component
check_hand_in_zone(keypoints, zone, threshold) ==
    \E i \in 1..Len(keypoints) :
        \/ wrist_in_zone(keypoints[i].left_wrist, zone, threshold)
        \/ wrist_in_zone(keypoints[i].right_wrist, zone, threshold)

\* ProcessAnalysisService.get_hand_positions: the last person sets a hand
get_hand_positions(keypoints) ==
    LET lefts == {i \in 1..Len(keypoints) :
                     keypoints[i].left_wrist.conf > conf_threshold}
        rights == {i \in 1..Len(keypoints) :
                     keypoints[i].right_wrist.conf > conf_threshold}
        Last(S) == CHOOSE i \in S : \A j \in S : j <= i
    IN  [left |-> IF lefts = {} THEN None
                  ELSE Some([x |-> keypoints[Last(lefts)].left_wrist.x
                                     + hand_offset_pixels,
                             y |-> keypoints[Last(lefts)].left_wrist.y
                                     + hand_offset_pixels]),
         right |-> IF rights = {} THEN None
                   ELSE Some([x |-> keypoints[Last(rights)].right_wrist.x
                                      - hand_offset_pixels,
                              y |-> keypoints[Last(rights)].right_wrist.y
                                      + hand_offset_pixels])]

\* ProcessAnalysisService.check_zone_collision
check_zone_collision(hand_pos, zone) ==
    IF hand_pos = None
    THEN FALSE
    ELSE /\ zone.Xstart <= hand_pos[1].x /\ hand_pos[1].x <= zone.Xend
         /\ zone.Ystart <= hand_pos[1].y /\ hand_pos[1].y <= zone.Yend

\* the time a step took: since the last event, or since the start
step_time_since(session_data) ==
    now - (IF session_data.step_events # <<>>
           THEN session_data.step_events[Len(session_data.step_events)].time
           ELSE session_data.start_time[1])

(***************************************************************************)
(* tracking_controller.check_step_advancement, in two steps of the calling *)
(* thread: lines 136-160 read the session and decide, lines 164-186 record *)
(* the step.  Nothing excludes another thread between the two.             *)
(***************************************************************************)
\* lines 136-160 without the test of is_tracking in line 145: a session
\* that was never started would record steps
check_step_advancement_read_untracked(session_id, zone_id) ==
    IF session_id \notin DOMAIN active_sessions
    THEN None
    ELSE LET service == active_sessions[session_id].service
             current_step_idx == service.session_data.current_step
             steps == service.process_steps
         IN  IF current_step_idx >= Len(steps) THEN None
             ELSE IF zone_id = steps[current_step_idx + 1].TargetZoneId
                  THEN Some([current_step_idx |-> current_step_idx,
                             zone_id |-> zone_id])
                  ELSE None

\* lines 136-160 with the test of line 152 one too far: at the end of the
\* process an entry is compared with the last step's target
check_step_advancement_read_after_end(session_id, zone_id) ==
    IF session_id \notin DOMAIN active_sessions
    THEN None
    ELSE LET service == active_sessions[session_id].service
             current_step_idx == service.session_data.current_step
             steps == service.process_steps
             idx == IF current_step_idx >= Len(steps)
                    THEN Len(steps) - 1 ELSE current_step_idx
         IN  IF ~service.is_tracking \/ steps = <<>> THEN None
             ELSE IF current_step_idx > Len(steps) THEN None
             ELSE IF zone_id = steps[idx + 1].TargetZoneId
                  THEN Some([current_step_idx |-> idx, zone_id |-> zone_id])
                  ELSE None

\* lines 136-154 without the comparison of line 160: any zone entered while
\* steps remain would complete the current step
check_step_advancement_read_any_zone(session_id, zone_id) ==
    IF session_id \notin DOMAIN active_sessions
    THEN None
    ELSE LET service == active_sessions[session_id].service
             current_step_idx == service.session_data.current_step
             steps == service.process_steps
         IN  IF ~service.is_tracking THEN None
             ELSE IF current_step_idx >= Len(steps) THEN None
             ELSE Some([current_step_idx |-> current_step_idx,
                        zone_id |-> zone_id])

\* lines 136-160: the step index read when the zone is the target, or None
check_step_advancement_read(session_id, zone_id) ==
    IF session_id \notin DOMAIN active_sessions
    THEN None
    ELSE LET service == active_sessions[session_id].service
             current_step_idx == service.session_data.current_step
             steps == service.process_steps
         IN  IF ~service.is_tracking THEN None
             ELSE IF current_step_idx >= Len(steps) THEN None
             ELSE IF zone_id = steps[current_step_idx + 1].TargetZoneId
                  THEN Some([current_step_idx |-> current_step_idx,
                             zone_id |-> zone_id])
                  ELSE None

\* what check_step_advancement returns: True when it records the step,
\* False otherwise (lines 140, 146, 154, 186, 189)
check_step_advancement_returns(session_id, zone_id) ==
    check_step_advancement_read(session_id, zone_id) # None

\* lines 164-186: the session after the step is recorded
check_step_advancement_record(session, current_step_idx) ==
    LET service == session.service
        steps == service.process_steps
        current_step == steps[current_step_idx + 1]
        step_event == [step_number |-> current_step_idx + 1,
                       step_name |-> current_step.StepName,
                       zone_hit |-> current_step.ZoneName,
                       time |-> now,
                       duration |-> step_time_since(service.session_data),
                       target_duration |-> current_step.Duration]
    IN  [session EXCEPT
           !.service.session_data.step_events = Append(@, step_event),
           !.service.session_data.current_step = current_step_idx + 1,
           !.status = IF current_step_idx + 1 >= Len(steps)
                      THEN "completed" ELSE @]

\* lines 247-271 for one zone: current_zone_detections after the frame.
\* The body runs once per detected person, so a frame without a person
\* leaves the dictionary as it is.
zone_detections_after(detections, zone_id, keypoints_data) ==
    IF keypoints_data = <<>>
    THEN detections
    ELSE IF check_hand_in_zone(keypoints_data, StreamZone(zone_id),
                               conf_threshold)
         THEN detections \cup {zone_id}
         ELSE detections \ {zone_id}

\* one pass of generate_frames' loop body (lines 248-271) for one zone
generate_frames(session_id, zone_id, keypoints_data) ==
    /\ session_id \in issued
    /\ stream_pc[session_id] = None
    /\ keypoints_data # <<>>
    /\ LET in_zone == check_hand_in_zone(keypoints_data, StreamZone(zone_id),
                                         conf_threshold)
           latched == zone_id \in current_zone_detections[session_id]
       IN  /\ current_zone_detections' =
                 [current_zone_detections EXCEPT ![session_id] =
                    zone_detections_after(@, zone_id, keypoints_data)]
           /\ stream_pc' =
                 [stream_pc EXCEPT ![session_id] =
                    IF in_zone /\ ~latched
                    THEN check_step_advancement_read(session_id, zone_id)
                    ELSE None]
    /\ UNCHANGED <<active_sessions, issued, session_zone_tracking,
                   frame_pc, dwell_done, now>>
    /\ UNCHANGED <<tracker, reported, ProcessSteps, saving>>

\* a frame in which the pose model finds no person: the loop body never runs
generate_frames_no_person(session_id) ==
    /\ session_id \in issued
    /\ stream_pc[session_id] = None
    /\ UNCHANGED vars

\* the stream thread finishes check_step_advancement (lines 164-186)
check_step_advancement(session_id) ==
    /\ stream_pc[session_id] # None
    /\ stream_pc' = [stream_pc EXCEPT ![session_id] = None]
    /\ active_sessions' =
          IF session_id \notin DOMAIN active_sessions
          THEN active_sessions
          ELSE [active_sessions EXCEPT ![session_id] =
                  check_step_advancement_record(
                      @, stream_pc[session_id][1].current_step_idx)]
    /\ UNCHANGED <<issued, session_zone_tracking, current_zone_detections,
                   frame_pc, dwell_done, now>>
    /\ UNCHANGED <<tracker, reported, ProcessSteps, saving>>

(***************************************************************************)
(* ProcessAnalysisService.check_step_progress, in two steps of the calling *)
(* thread: lines 224-249 read and decide, lines 252-267 record the step.   *)
(***************************************************************************)
\* lines 234-239: the target zone among the loaded zones, or None
find_target_zone(service, target_zone_id) ==
    LET found == {i \in 1..Len(service.current_zones) :
                     service.current_zones[i].Id = target_zone_id}
    IN  IF found = {} THEN None
        ELSE Some(service.current_zones[CHOOSE i \in found :
                                           \A j \in found : i <= j])

\* lines 224-249: the step index and target zone when a hand hits, or None
check_step_progress_read(service, hands) ==
    IF ~service.is_tracking \/ service.process_steps = <<>>
    THEN None
    ELSE LET current_step_idx == service.session_data.current_step IN
         IF current_step_idx >= Len(service.process_steps)
         THEN None
         ELSE LET current_step == service.process_steps[current_step_idx + 1]
                  target_zone == find_target_zone(service,
                                                  current_step.TargetZoneId)
              IN  IF target_zone = None THEN None
                  ELSE IF \/ check_zone_collision(hands.left, target_zone[1])
                          \/ check_zone_collision(hands.right, target_zone[1])
                       THEN Some([current_step_idx |-> current_step_idx,
                                  zone_id |-> target_zone[1].Id])
                       ELSE None

\* lines 252-267: the session after the step is recorded
check_step_progress_record(session, current_step_idx, target_zone_id) ==
    LET service == session.service
        current_step == service.process_steps[current_step_idx + 1]
        step_event == [step_number |-> current_step_idx + 1,
                       step_name |-> current_step.StepName,
                       zone_hit |-> ZoneRow(target_zone_id).ZoneName,
                       time |-> now,
                       duration |-> step_time_since(service.session_data),
                       target_duration |-> current_step.Duration]
    IN  [session EXCEPT
           !.service.session_data.step_events = Append(@, step_event),
           !.service.session_data.current_step = @ + 1]

\* the zones a frame shows a hand in, as check_zone_collision sees them
zones_hit(hands) ==
    {z \in ZoneIds : \/ check_zone_collision(hands.left, ZoneRow(z))
                     \/ check_zone_collision(hands.right, ZoneRow(z))}

\* the HTTP status of POST /analysis/process-frame/<session_id> for a
\* request that carries an image
process_frame_code(session_id) ==
    IF session_id \notin DOMAIN active_sessions THEN 404 ELSE 200

\* POST /analysis/process-frame/<session_id>, up to the hit decision
process_frame(session_id, keypoints) ==
    /\ frame_pc[session_id] = None
    /\ IF session_id \notin DOMAIN active_sessions
       THEN UNCHANGED <<frame_pc, dwell_done>>
       ELSE LET service == active_sessions[session_id].service
                hands == get_hand_positions(keypoints)
            IN  IF ~service.is_tracking
                THEN UNCHANGED <<frame_pc, dwell_done>>
                ELSE /\ frame_pc' =
                           [frame_pc EXCEPT ![session_id] =
                              check_step_progress_read(service, hands)]
                     /\ dwell_done' =
                           [dwell_done EXCEPT ![session_id] =
                              @ \cap zones_hit(hands)]
    /\ UNCHANGED <<active_sessions, issued, session_zone_tracking,
                   current_zone_detections, stream_pc, now>>
    /\ UNCHANGED <<tracker, reported, ProcessSteps, saving>>

\* the request thread finishes check_step_progress (lines 252-267)
check_step_progress(session_id) ==
    /\ frame_pc[session_id] # None
    /\ frame_pc' = [frame_pc EXCEPT ![session_id] = None]
    /\ LET read == frame_pc[session_id][1] IN
       /\ active_sessions' =
             IF session_id \notin DOMAIN active_sessions
             THEN active_sessions
             ELSE [active_sessions EXCEPT ![session_id] =
                     check_step_progress_record(@, read.current_step_idx,
                                                read.zone_id)]
       /\ dwell_done' =
             [dwell_done EXCEPT ![session_id] = @ \cup {read.zone_id}]
    /\ UNCHANGED <<issued, session_zone_tracking, current_zone_detections,
                   stream_pc, now>>
    /\ UNCHANGED <<tracker, reported, ProcessSteps, saving>>

(***************************************************************************)
(* POST /analysis/zone-detected/<session_id>                               *)
(***************************************************************************)
\* dict.get(key, default)
dict_get(d, key, default) == IF key \in DOMAIN d THEN d[key] ELSE default

\* lines 96-128: the session after an 'enter' event
zone_detected_enter(session, zone_id, timestamp) ==
    LET service == session.service
        current_step == dict_get(service.session_data, "current_step", 0)
        steps == dict_get(service.session_data, "steps", <<>>)
    IN  IF current_step < Len(steps)
        THEN IF zone_id = steps[current_step + 1].TargetZoneId
             THEN LET step_event ==
                         [step |-> current_step + 1,
                          zoneName |-> steps[current_step + 1].ZoneName,
                          targetDuration |-> steps[current_step + 1].Duration,
                          actualDuration |-> 0,
                          timestamp |-> timestamp,
                          adherence |-> 100]
                  IN  [session EXCEPT
                         !.service.session_data.step_events =
                             Append(@, step_event),
                         !.service.session_data.current_step =
                             current_step + 1,
                         !.status = IF current_step + 1 >= Len(steps)
                                    THEN "completed" ELSE @]
             ELSE session
        ELSE session

\* lines 132-137 if an 'exit' event took the session back to ready
zone_detected_exit_resets(session, zone_id) ==
    [session EXCEPT !.status = "ready",
                    !.service.session_data.current_step = 0]

\* lines 132-137: the session after an 'exit' event
zone_detected_exit(session, zone_id) == session

\* lines 81-137: the session's zone_track entry after the event
zone_track_after(zone_track, zone_id, event_type, timestamp) ==
    IF event_type = "enter"
    THEN [current_zone |-> Some(zone_id), entry_time |-> Some(timestamp)]
    ELSE IF event_type = "exit" /\ zone_track.current_zone = Some(zone_id)
         THEN [current_zone |-> None, entry_time |-> None]
         ELSE zone_track

\* a zone-detected endpoint that answers an event for a session whose
\* status is completed with an error
handle_zone_detection_code_strict(session_id) ==
    IF session_id \notin DOMAIN active_sessions THEN 404
    ELSE IF active_sessions[session_id].status = "completed" THEN 409
    ELSE 200

\* the HTTP status of POST /analysis/zone-detected/<session_id>
handle_zone_detection_code(session_id) ==
    IF session_id \notin DOMAIN active_sessions THEN 404 ELSE 200

handle_zone_detection(session_id, zone_id, event_type, timestamp) ==
    /\ IF session_id \notin DOMAIN active_sessions
       THEN UNCHANGED <<active_sessions, session_zone_tracking>>
       ELSE /\ session_zone_tracking' =
                  [x \in DOMAIN session_zone_tracking \cup {session_id} |->
                     IF x = session_id
                     THEN zone_track_after(
                              IF session_id \in DOMAIN session_zone_tracking
                              THEN session_zone_tracking[session_id]
                              ELSE [current_zone |-> None,
                                    entry_time |-> None],
                              zone_id, event_type, timestamp)
                     ELSE session_zone_tracking[x]]
            /\ active_sessions' =
                  IF event_type = "enter"
                  THEN [active_sessions EXCEPT ![session_id] =
                          zone_detected_enter(@, zone_id, timestamp)]
                  ELSE [active_sessions EXCEPT ![session_id] =
                          zone_detected_exit(@, zone_id)]
    /\ UNCHANGED <<issued, current_zone_detections, stream_pc, frame_pc,
                   dwell_done, now>>
    /\ UNCHANGED <<tracker, reported, ProcessSteps, saving>>

EventTypes == {"enter", "exit"}

Next ==
    \/ \E e \in EnvironmentIds, p \in RequestProcessIds : start_analysis(e, p)
    \/ \E s \in SessionIds : start_tracking(s)
    \/ \E s \in SessionIds : stop_analysis(s)
    \/ \E s \in SessionIds : get_analysis_status(s)
    \/ \E s \in SessionIds : cleanup_session(s)
    \/ \E s \in SessionIds, z \in ZoneIds, k \in Frames : generate_frames(s, z, k)
    \/ \E s \in SessionIds : generate_frames_no_person(s)
    \/ \E s \in SessionIds : check_step_advancement(s)
    \/ \E s \in SessionIds, k \in Frames : process_frame(s, k)
    \/ \E s \in SessionIds : check_step_progress(s)
    \/ \E s \in SessionIds, z \in ZoneIds, t \in EventTypes :
          handle_zone_detection(s, z, t, now)

Spec == Init /\ [][Next]_vars

(***************************************************************************)
(* src/sequential_process_tracker.py: a script of its own that watches the *)
(* camera and walks process_sequence.  Its state is its module globals;    *)
(* one action is one pass of its while loop (lines 55-127) over the        *)
(* keypoints the pose model returned for the frame.                        *)
(***************************************************************************)
MaxTime == 3

\* lines 10-14: the rectangle of a zone of the script's zones list
TrackerZone(z) ==
    CASE z = 1 -> [id |-> 1, name |-> "Zone A",
                   x |-> 100, y |-> 100, width |-> 150, height |-> 150]
      [] z = 2 -> [id |-> 2, name |-> "Zone B",
                   x |-> 300, y |-> 100, width |-> 150, height |-> 150]
      [] OTHER -> [id |-> 3, name |-> "Zone C",
                   x |-> 200, y |-> 300, width |-> 150, height |-> 150]

\* line 16
process_sequence == <<1, 2, 3>>

\* the confidence both wrists are compared with in lines 77 and 84, in
\* hundredths
tracker_conf_threshold == 50

\* the keypoints of the frames the camera shows the script: no person, or
\* one person whose left wrist is inside zone A, on zone A's corner
\* (250, 100), inside zone B, inside zone C, inside zone A with the
\* confidence of the threshold, or outside every zone
TrackerLeftWrists == {Wrist(150, 150, 90), Wrist(250, 100, 90),
                      Wrist(350, 150, 90), Wrist(250, 350, 90),
                      Wrist(150, 150, 50), Wrist(50, 50, 90)}
TrackerRightWrists == {Wrist(50, 50, 90), Wrist(350, 150, 90)}
TrackerFrames ==
    {<<>>} \cup {<<p>> : p \in [left_wrist : TrackerLeftWrists,
                                right_wrist : TrackerRightWrists]}

\* lines 25-27 with the rectangle's edges left out
tracker_check_hand_in_zone_open(x, y, zone) ==
    /\ zone.x < x /\ x < zone.x + zone.width
    /\ zone.y < y /\ y < zone.y + zone.height

\* lines 25-27: check_hand_in_zone of the script
tracker_check_hand_in_zone(x, y, zone) ==
    /\ zone.x <= x /\ x <= zone.x + zone.width
    /\ zone.y <= y /\ y <= zone.y + zone.height

\* lines 77-89 for one person: the hand found in the target zone, or None
tracker_person_hand(person_kp, target_zone) ==
    IF /\ person_kp.left_wrist.conf > tracker_conf_threshold
       /\ tracker_check_hand_in_zone(person_kp.left_wrist.x,
                                     person_kp.left_wrist.y, target_zone)
    THEN Some("left")
    ELSE IF /\ person_kp.right_wrist.conf > tracker_conf_threshold
            /\ tracker_check_hand_in_zone(person_kp.right_wrist.x,
                                          person_kp.right_wrist.y, target_zone)
         THEN Some("right")
         ELSE None

\* lines 68-89: hand_type of the first person with a hand in the target
\* zone (the break of lines 82 and 89), or None when hand_detected stays
\* False
tracker_hand(keypoints, target_zone) ==
    LET found == {i \in 1..Len(keypoints) :
                     tracker_person_hand(keypoints[i], target_zone) # None}
    IN  IF found = {} THEN None
        ELSE tracker_person_hand(
                 keypoints[CHOOSE i \in found : \A j \in found : i <= j],
                 target_zone)

\* line 98: the time the step took
tracker_step_time(t, entry_time, process_start_time) ==
    entry_time - (IF t.step_times # <<>>
                  THEN t.step_times[Len(t.step_times)]
                  ELSE process_start_time)

\* lines 91-110: the hand is seen in the target zone and in_zone is False
tracker_enter(t, time) ==
    LET process_start_time == IF t.process_start_time = None
                              THEN time ELSE t.process_start_time[1]
        step_time == tracker_step_time(t, time, process_start_time)
    IN  [t EXCEPT
           !.in_zone = TRUE,
           !.entry_time = Some(time),
           !.process_start_time = Some(process_start_time),
           !.step_times = Append(@, step_time),
           !.current_step = @ + 1,
           !.process_complete = (t.current_step + 1 >= Len(process_sequence))]

\* the globals after one pass of the loop that read these keypoints at
\* this time (lines 60-113)
main_loop_pass(t, keypoints, time) ==
    LET seen == [t EXCEPT !.results = keypoints] IN
    IF seen.process_complete \/ seen.current_step >= Len(process_sequence)
    THEN seen
    ELSE LET target_zone_id == process_sequence[seen.current_step + 1]
             hand == tracker_hand(keypoints, TrackerZone(target_zone_id))
             looked == [seen EXCEPT !.target_zone_id = Some(target_zone_id),
                                    !.hand_detected = (hand # None),
                                    !.hand_type = hand]
         IN  IF hand # None /\ ~looked.in_zone
             THEN tracker_enter(looked, time)
             ELSE IF hand = None /\ looked.in_zone
                  THEN [looked EXCEPT !.in_zone = FALSE]
                  ELSE looked

server_vars == <<active_sessions, issued, session_zone_tracking,
                 current_zone_detections, stream_pc, frame_pc, dwell_done,
                 ProcessSteps, saving>>

\* one pass of the while loop
main_loop(keypoints) ==
    /\ tracker' = main_loop_pass(tracker, keypoints, now)
    /\ UNCHANGED <<server_vars, now, reported>>

\* time.time() reads later
time_passes ==
    /\ now < MaxTime
    /\ now' = now + 1
    /\ UNCHANGED <<server_vars, tracker, reported>>

TrackerNext ==
    \/ \E k \in TrackerFrames : main_loop(k)
    \/ time_passes

TrackerSpec == Init /\ [][TrackerNext]_vars

(***************************************************************************)
(* A zone reporter walks a tracking session through its process: for step  *)
(* 1, 2, ... it reports the hand entering the step's target zone and then  *)
(* leaving it.  It uses one path for the whole run, the zone-detected      *)
(* endpoint or the frames of a /stream generator, and goes on to the next  *)
(* signal when the one before has been taken.                              *)
(***************************************************************************)
ReporterPaths == {"endpoint", "stream"}

\* the j-th signal of the run for a session: its zone and its kind
signal_zone(session, j) ==
    session.service.process_steps[(j + 1) \div 2].TargetZoneId
signal_type(j) == IF j % 2 = 1 THEN "enter" ELSE "exit"

\* the run is under way and signal j is the one to deliver
reporting(session_id, j) ==
    /\ session_id \in DOMAIN active_sessions
    /\ reported[session_id].path # None
    /\ j = reported[session_id].count + 1
    /\ j <= 2 * Len(active_sessions[session_id].service.process_steps)

\* signal j has been taken by the path's latch
signal_taken(session_id, j) ==
    LET z == signal_zone(active_sessions[session_id], j) IN
    IF reported[session_id].path = Some("endpoint")
    THEN /\ session_id \in DOMAIN session_zone_tracking
         /\ IF signal_type(j) = "enter"
            THEN session_zone_tracking[session_id].current_zone = Some(z)
            ELSE session_zone_tracking[session_id].current_zone = None
    ELSE /\ stream_pc[session_id] = None
         /\ IF signal_type(j) = "enter"
            THEN z \in current_zone_detections[session_id]
            ELSE z \notin current_zone_detections[session_id]

\* POST /analysis/start-tracking before the reporter's run
start_tracking_before_run(session_id) ==
    /\ reported[session_id].path = None
    /\ start_tracking(session_id)

\* the reporter starts its run on a session that is tracking
reporter_begin(session_id, path) ==
    /\ session_id \in DOMAIN active_sessions
    /\ active_sessions[session_id].status = "tracking"
    /\ active_sessions[session_id].service.is_tracking
    /\ reported[session_id].path = None
    /\ reported' = [reported EXCEPT ![session_id].path = Some(path)]
    /\ UNCHANGED <<server_vars, now, tracker>>

\* the reporter posts its signal to /analysis/zone-detected
reporter_signal_endpoint(session_id) ==
    \E j \in 1..(2 * MaxSteps) :
        /\ reporting(session_id, j)
        /\ reported[session_id].path = Some("endpoint")
        /\ ~signal_taken(session_id, j)
        /\ handle_zone_detection(session_id,
                                 signal_zone(active_sessions[session_id], j),
                                 signal_type(j), now)

\* the camera shows the stream a frame with the hand inside the signal's
\* zone and no other (enter) or a person with the hand outside every zone
\* (exit), and the stream's loop body handles one of its zones
reporter_signal_stream(session_id, zone_id, keypoints_data) ==
    \E j \in 1..(2 * MaxSteps) :
        /\ reporting(session_id, j)
        /\ reported[session_id].path = Some("stream")
        /\ ~signal_taken(session_id, j)
        /\ \A z \in ZoneIds :
              check_hand_in_zone(keypoints_data, StreamZone(z), conf_threshold)
                 = ( /\ signal_type(j) = "enter"
                     /\ z = signal_zone(active_sessions[session_id], j) )
        /\ generate_frames(session_id, zone_id, keypoints_data)

\* the signal was taken: the reporter turns to the next one
reporter_advance(session_id) ==
    /\ \E j \in 1..(2 * MaxSteps) :
          /\ reporting(session_id, j)
          /\ signal_taken(session_id, j)
    /\ reported' = [reported EXCEPT ![session_id].count = @ + 1]
    /\ UNCHANGED <<server_vars, now, tracker>>

ReporterNext ==
    \/ \E e \in EnvironmentIds, p \in RequestProcessIds : start_analysis(e, p)
    \/ \E s \in SessionIds : start_tracking_before_run(s)
    \/ \E s \in SessionIds, path \in ReporterPaths : reporter_begin(s, path)
    \/ \E s \in SessionIds : reporter_signal_endpoint(s)
    \/ \E s \in SessionIds, z \in ZoneIds, k \in Frames :
          reporter_signal_stream(s, z, k)
    \/ \E s \in SessionIds : check_step_advancement(s)
    \/ \E s \in SessionIds : reporter_advance(s)
    \/ time_passes

\* the reporter keeps reporting, the stream handles every zone of every
\* frame, and its thread keeps running
ReporterFairness ==
    \A s \in SessionIds :
        /\ WF_vars(reporter_signal_endpoint(s))
        /\ \A z \in ZoneIds :
              WF_vars(\E k \in Frames : reporter_signal_stream(s, z, k))
        /\ WF_vars(check_step_advancement(s))
        /\ WF_vars(reporter_advance(s))

ReporterSpec == Init /\ [][ReporterNext]_vars /\ ReporterFairness

(***************************************************************************)
(* The steps of a process are edited in the store while sessions run:      *)
(* POST /processes/<process_id>/steps replaces the active rows of the      *)
(* process.                                                                *)
(***************************************************************************)
\* a step of the request body; the clients name a step by its position
RequestStep(n, z, d) ==
    [StepName |-> n, TargetZoneId |-> z, Duration |-> d,
     Description |-> "text"]

\* a step of a request body that has no Description
WithoutDescription(step) ==
    [k \in DOMAIN step \ {"Description"} |-> step[k]]

\* the step lists a client posts: none, one step, two steps, a step whose
\* duration is not positive, and two lists whose second step is invalid
RequestStepLists ==
    {<<>>, <<RequestStep(1, 2, 1)>>,
     <<RequestStep(1, 2, 1), RequestStep(2, 1, 1)>>,
     <<RequestStep(1, 1, 0)>>,
     <<RequestStep(1, 2, 1), RequestStep(2, 1, 0)>>,
     <<RequestStep(1, 2, 1), WithoutDescription(RequestStep(2, 1, 1))>>}

required_step_fields == {"StepName", "TargetZoneId", "Duration", "Description"}

\* the validation loop if it looked at the first step only
save_process_steps_code_first_step(steps) ==
    IF /\ steps # <<>>
       /\ \/ ~(required_step_fields \subseteq DOMAIN steps[1])
          \/ steps[1].Duration <= 0
    THEN 400
    ELSE 200

\* the HTTP status the validation of POST /processes/<process_id>/steps
\* gives: 400 at the first invalid step, else what the store allows
save_process_steps_code(steps) ==
    IF \E i \in 1..Len(steps) :
          \/ ~(required_step_fields \subseteq DOMAIN steps[i])
          \/ steps[i].Duration <= 0
    THEN 400
    ELSE 200

\* the transaction thread t has open
Txn(t) == saving[t].txn[1]

\* the row create_process_step inserts for the step at position i, as
\* get_process_steps shows it
InsertedRow(i, step) ==
    [StepNumber |-> i, StepName |-> step.StepName,
     TargetZoneId |-> step.TargetZoneId,
     ZoneName |-> ZoneRow(step.TargetZoneId).ZoneName,
     Duration |-> step.Duration]

InsertedRows(steps) == [i \in 1..Len(steps) |-> InsertedRow(i, steps[i])]

\* ORDER BY "StepNumber" ASC: the places a new row can take among the rows
\* read; rows with equal StepNumber come in either order
InsertPositions(rows, row) ==
    {k \in 0..Len(rows) :
        /\ \A j \in 1..k : rows[j].StepNumber <= row.StepNumber
        /\ \A j \in (k + 1)..Len(rows) : row.StepNumber <= rows[j].StepNumber}

InsertAt(rows, k, row) ==
    [j \in 1..(Len(rows) + 1) |->
        IF j <= k THEN rows[j] ELSE IF j = k + 1 THEN row ELSE rows[j - 1]]

\* the rows without one row equal to row
RemoveOne(rows, row) ==
    LET found == {j \in 1..Len(rows) : rows[j] = row} IN
    IF found = {} THEN rows
    ELSE LET k == CHOOSE j \in found : \A i \in found : j <= i
         IN  [j \in 1..(Len(rows) - 1) |->
                 IF j < k THEN rows[j] ELSE rows[j + 1]]

\* the active rows once the rows in gone are marked inactive
RECURSIVE Deactivate(_, _)
Deactivate(rows, gone) ==
    IF gone = <<>> THEN rows
    ELSE Deactivate(RemoveOne(rows, Head(gone)), Tail(gone))

\* the UPDATE of line 281 waits while another transaction holds the rows
\* it would change
update_waits(t, process_id) ==
    \E u \in SaverIds \ {t} :
        /\ saving[u].txn # None
        /\ Txn(u).process_id = process_id
        /\ Txn(u).deactivated # <<>>

save_unchanged ==
    UNCHANGED <<active_sessions, issued, session_zone_tracking,
                current_zone_detections, stream_pc, frame_pc, dwell_done,
                now, tracker, reported>>

\* POST /processes/<process_id>/steps on thread t, up to the UPDATE of
\* DatabaseService.save_process_steps (line 281), which the connection of
\* line 279 has not committed
save_process_steps(t, process_id, steps) ==
    /\ saving[t].txn = None
    /\ process_id \in ProcessIds
    /\ IF save_process_steps_code(steps) = 400
       THEN saving' = [saving EXCEPT ![t].status = Some(400)]
       ELSE /\ ~update_waits(t, process_id)
            /\ saving' =
                  [saving EXCEPT
                     ![t] = [txn |-> Some([process_id |-> process_id,
                                           steps |-> steps,
                                           deactivated |->
                                              ProcessSteps[process_id],
                                           inserted |-> 0]),
                             status |-> None]]
    /\ UNCHANGED ProcessSteps
    /\ save_unchanged

\* one pass of the loop of lines 283-292: create_process_step inserts the
\* next row on a connection of its own, which commits
create_process_step(t) ==
    /\ saving[t].txn # None
    /\ Txn(t).inserted < Len(Txn(t).steps)
    /\ Len(ProcessSteps[Txn(t).process_id]) < MaxRows
    /\ LET i == Txn(t).inserted + 1
           row == InsertedRow(i, Txn(t).steps[i])
           rows == ProcessSteps[Txn(t).process_id]
       IN  \E k \in InsertPositions(rows, row) :
              ProcessSteps' = [ProcessSteps EXCEPT
                                 ![Txn(t).process_id] = InsertAt(rows, k, row)]
    /\ saving' = [saving EXCEPT ![t].txn[1].inserted = @ + 1]
    /\ save_unchanged

\* an insert raises (the connection or the statement fails): get_connection
\* rolls the UPDATE back (line 47) and the route answers 500
create_process_step_raises(t) ==
    /\ saving[t].txn # None
    /\ Txn(t).inserted < Len(Txn(t).steps)
    /\ saving' = [saving EXCEPT ![t] = [txn |-> None, status |-> Some(500)]]
    /\ UNCHANGED ProcessSteps
    /\ save_unchanged

\* the loop is over: get_connection commits the UPDATE (line 44) and the
\* route answers 200 with the rows get_process_steps reads
save_process_steps_returns(t) ==
    /\ saving[t].txn # None
    /\ Txn(t).inserted = Len(Txn(t).steps)
    /\ ProcessSteps' =
          [ProcessSteps EXCEPT
             ![Txn(t).process_id] = Deactivate(@, Txn(t).deactivated)]
    /\ saving' = [saving EXCEPT ![t] = [txn |-> None, status |-> Some(200)]]
    /\ save_unchanged

\* the thread that edits while sessions run, and the process it edits
EditSaverIds == {"t1"}
EditProcessIds == {1}

\* the frame of the edited runs: a hand on the edge that zone 1 and zone 2
\* share
EditFrames == {<<[left_wrist |-> Wrist(170, 100, 90),
                  right_wrist |-> Wrist(400, 100, 90)]>>}

EditNext ==
    \/ \E e \in EnvironmentIds, p \in RequestProcessIds : start_analysis(e, p)
    \/ \E s \in SessionIds : start_tracking(s)
    \/ \E s \in SessionIds : stop_analysis(s)
    \/ \E s \in SessionIds, k \in EditFrames : process_frame(s, k)
    \/ \E s \in SessionIds : check_step_progress(s)
    \/ \E t \in EditSaverIds, p \in EditProcessIds,
          steps \in RequestStepLists : save_process_steps(t, p, steps)
    \/ \E t \in EditSaverIds : create_process_step(t)
    \/ \E t \in EditSaverIds : save_process_steps_returns(t)

EditSpec == Init /\ [][EditNext]_vars

\* GET /processes/<process_id>/steps
get_process_steps_route(process_id) ==
    /\ UNCHANGED vars

\* the processes whose steps the clients edit: one with steps, one without
SaveProcessIds == {1, 3}

\* the requests that write and read the steps of the processes
SaveNext ==
    \/ \E t \in SaverIds, p \in SaveProcessIds, steps \in RequestStepLists :
          save_process_steps(t, p, steps)
    \/ \E t \in SaverIds : create_process_step(t)
    \/ \E t \in SaverIds : create_process_step_raises(t)
    \/ \E t \in SaverIds : save_process_steps_returns(t)
    \/ \E p \in ProcessIds : get_process_steps_route(p)

SaveSpec == Init /\ [][SaveNext]_vars

(***************************************************************************)
(* Two sessions side by side: the analysis routes and the stream, each     *)
(* called with either session id.  Both sessions run process 2, whose two  *)
(* steps target zone 1.                                                    *)
(***************************************************************************)
SessionPair == {"s1", "s2"}

\* the frames of the two-session runs: a hand in zone 1, no hand in a zone
PairFrames == {<<[left_wrist |-> Wrist(170, 100, 90),
                  right_wrist |-> Wrist(400, 100, 90)]>>,
               <<[left_wrist |-> Wrist(400, 100, 90),
                  right_wrist |-> Wrist(400, 100, 90)]>>}

\* the zone the stream clients and the zone reporters of the two-session
\* runs watch
PairZones == {1}

PairInit ==
    /\ active_sessions = <<>>
    /\ issued = {}
    /\ session_zone_tracking = <<>>
    /\ current_zone_detections = [s \in SessionPair |-> {}]
    /\ tracker = NewTracker
    /\ reported = [s \in SessionPair |-> [path |-> None, count |-> 0]]
    /\ ProcessSteps = [process_id \in ProcessIds |->
                          StoredProcessSteps(process_id)]
    /\ saving = [t \in SaverIds |-> [txn |-> None, status |-> None]]
    /\ stream_pc = [s \in SessionPair |-> None]
    /\ frame_pc = [s \in SessionPair |-> None]
    /\ dwell_done = [s \in SessionPair |-> {}]
    /\ now = 0

PairNext ==
    \/ \E s \in SessionPair \ issued : start_analysis_as(s, 1, 2)
    \/ \E s \in SessionPair : start_tracking(s)
    \/ \E s \in SessionPair : stop_analysis(s)
    \/ \E s \in SessionPair : cleanup_session(s)
    \/ \E s \in SessionPair, z \in PairZones, k \in PairFrames :
          generate_frames(s, z, k)
    \/ \E s \in SessionPair : check_step_advancement(s)
    \/ \E s \in SessionPair, z \in PairZones, t \in EventTypes :
          handle_zone_detection(s, z, t, now)

PairSpec == PairInit /\ [][PairNext]_vars

(***************************************************************************)
(* The analysis routes for sessions of any stored environment, the one     *)
(* with the inverted zone included.                                        *)
(***************************************************************************)
AnyEnvironmentNext ==
    \/ \E e \in EnvironmentIds \cup InvertedEnvironmentIds,
          p \in RequestProcessIds : start_analysis(e, p)
    \/ \E s \in SessionIds : start_tracking(s)
    \/ \E s \in SessionIds : stop_analysis(s)
    \/ \E s \in SessionIds : cleanup_session(s)
    \/ \E s \in SessionIds, k \in Frames : process_frame(s, k)
    \/ \E s \in SessionIds : check_step_progress(s)

AnyEnvironmentSpec == Init /\ [][AnyEnvironmentNext]_vars

(***************************************************************************)
(* The adherence report on its own: a tracking session that recorded the   *)
(* first steps of its process, with the durations and targets drawn from   *)
(* the bounds, is stopped.  Up to MaxPending steps are still to be done.   *)
(***************************************************************************)
\* the worked example of a three-step run: targets of 10 s each, done in
\* 10 s, 22 s and 5 s
ExampleElapsed == { <<10, 22, 5>> }
ExampleTargets == { <<10, 10, 10>> }

RECURSIVE SumTo(_, _)
SumTo(f, i) == IF i = 0 THEN 0 ELSE f[i] + SumTo(f, i - 1)

\* the session after check_step_progress recorded step i at the time the
\* durations ds add up to, for a process whose step i has Duration ts[i];
\* the steps after Len(ds) are not recorded yet
ScoreSession(ds, ts) ==
    LET n == Len(ds)
        steps == [i \in 1..Len(ts) |-> StepRow(i, 1, ts[i])]
        events == [i \in 1..n |->
                     [step_number |-> i,
                      step_name |-> steps[i].StepName,
                      zone_hit |-> ZoneRow(1).ZoneName,
                      time |-> SumTo(ds, i),
                      duration |-> ds[i],
                      target_duration |-> steps[i].Duration]]
    IN  [service |-> [NewService EXCEPT
                        !.is_tracking = TRUE,
                        !.current_process = Some([Id |-> 1]),
                        !.current_zones = get_zones_for_environment(1),
                        !.process_steps = steps,
                        !.session_data = [start_time |-> Some(0),
                                          step_events |-> events,
                                          current_step |-> n]],
         environment_id |-> 1,
         process_id |-> 1,
         status |-> "tracking",
         results |-> None]

\* the targets ts followed by p steps still to be done, which have the
\* target of the last step done
WithPending(ts, p) ==
    [i \in 1..(Len(ts) + p) |-> IF i <= Len(ts) THEN ts[i] ELSE ts[Len(ts)]]

ScoreInit ==
    \E n \in 1..MaxEvents, p \in 0..MaxPending :
      \E ds \in [1..n -> 0..MaxElapsed] \cup ExampleElapsed,
         ts \in [1..n -> 1..MaxTarget] \cup ExampleTargets :
        /\ IF ds \in ExampleElapsed
           THEN ts \in ExampleTargets /\ p = 0
           ELSE ts \notin ExampleTargets
        /\ active_sessions =
              [s \in SessionIds |-> ScoreSession(ds, WithPending(ts, p))]
        /\ issued = SessionIds
        /\ session_zone_tracking = <<>>
        /\ current_zone_detections = [s \in SessionIds |-> {}]
        /\ tracker = NewTracker
        /\ reported = [s \in SessionIds |-> [path |-> None, count |-> 0]]
        /\ ProcessSteps = [process_id \in ProcessIds |->
                              StoredProcessSteps(process_id)]
        /\ saving = [t \in SaverIds |-> [txn |-> None, status |-> None]]
        /\ stream_pc = [s \in SessionIds |-> None]
        /\ frame_pc = [s \in SessionIds |-> None]
        /\ dwell_done = [s \in SessionIds |-> {}]
        /\ now = SumTo(ds, Len(ds))

ScoreNext == \E s \in SessionIds : stop_analysis(s)

ScoreSpec == ScoreInit /\ [][ScoreNext]_vars

(***************************************************************************)
(* Vocabulary of the properties.                                           *)
(***************************************************************************)
Active(s) == s \in DOMAIN active_sessions
CurrentStep(s) == active_sessions[s].service.session_data.current_step
StepEvents(s) == active_sessions[s].service.session_data.step_events
Steps(s) == active_sessions[s].service.process_steps
Status(s) == active_sessions[s].status
IsTracking(s) == active_sessions[s].service.is_tracking
Results(s) == active_sessions[s].results
Idle(s) == stream_pc[s] = None /\ frame_pc[s] = None

\* what a caller gets: an HTTP reply, or the value a function returns
HttpReply(code) == [code |-> code]
FunctionReply(value) == [returned |-> value]
NotFoundReply == HttpReply(404)

\* the step number a StepEvent carries, under either spelling of the key
StepNumberOf(event) ==
    IF "step_number" \in DOMAIN event THEN event.step_number ELSE event.step

\* the target zone of the step the session expects next
TargetZone(s) == Steps(s)[CurrentStep(s) + 1].TargetZoneId

\* a step of any of the three paths that deliver zone signals to session s
SignalStep(s) ==
    \/ \E z \in ZoneIds, k \in Frames : generate_frames(s, z, k)
    \/ check_step_advancement(s)
    \/ \E k \in Frames : process_frame(s, k)
    \/ check_step_progress(s)
    \/ \E z \in ZoneIds, t \in EventTypes : handle_zone_detection(s, z, t, now)

\* session s stays registered over the step
Stays(s) == s \in DOMAIN active_sessions /\ s \in DOMAIN active_sessions'

\* C1 (monotonicity): over every step of a zone-signal path, current_step
\* does not decrease and does not exceed the number of steps.
C1_Monotonic ==
    [][\A s \in SessionIds :
          (Stays(s) /\ SignalStep(s)) =>
              /\ CurrentStep(s)' >= CurrentStep(s)
              /\ CurrentStep(s)' <= Len(Steps(s))]_vars

\* C2 (exactly once per dwell): on each reporting path, a StepEvent is
\* recorded for a zone only on the first observation of the hand inside it
\* since the hand was last observed outside it.  For process_frame: the
\* frames since the zone's last StepEvent did not all show a hand in it.  For
\* the streaming detector: the zone's latch was clear.  For the zone-detected
\* endpoint: the session's tracked current_zone was another zone.
C2_ExactlyOncePerDwell ==
    [][\A s \in SessionIds, z \in ZoneIds :
          /\ ( /\ Stays(s) /\ check_step_progress(s)
               /\ frame_pc[s][1].zone_id = z )
             => z \notin dwell_done[s]
          /\ ( /\ \E k \in Frames : generate_frames(s, z, k)
               /\ stream_pc'[s] # None )
             => z \notin current_zone_detections[s]
          /\ ( /\ Stays(s) /\ handle_zone_detection(s, z, "enter", now)
               /\ StepEvents(s)' # StepEvents(s) )
             => ( \/ s \notin DOMAIN session_zone_tracking
                  \/ session_zone_tracking[s].current_zone # Some(z) )]_vars

\* an entry of the hand into zone z reported for session s: the streaming
\* detector sees the zone's latch rise, the zone-detected endpoint gets an
\* 'enter' event, or a frame shows a hand in z
StreamEnter(s, z) ==
    \E k \in Frames :
        /\ generate_frames(s, z, k)
        /\ z \notin current_zone_detections[s]
        /\ z \in current_zone_detections'[s]

EndpointEnter(s, z) == handle_zone_detection(s, z, "enter", now)

FrameEnter(s, z) ==
    \E k \in Frames :
        /\ process_frame(s, k)
        /\ zones_hit(get_hand_positions(k)) = {z}

Tracking(s) == Active(s) /\ Status(s) = "tracking" /\ IsTracking(s)

\* C3 (order enforcement): while a session is Tracking with steps left, an
\* entry into a zone that is not the current step's target appends no
\* StepEvent, leaves current_step unchanged and schedules no step completion.
C3_OrderEnforced ==
    [][\A s \in SessionIds, z \in ZoneIds :
          ( /\ Tracking(s)
            /\ CurrentStep(s) < Len(Steps(s))
            /\ z # TargetZone(s)
            /\ StreamEnter(s, z) \/ EndpointEnter(s, z) \/ FrameEnter(s, z) )
          => /\ active_sessions' = active_sessions
             /\ stream_pc' = stream_pc
             /\ frame_pc' = frame_pc]_vars

\* C3 witness: a Tracking session still at step 0 of a process whose first
\* target is zone 1, after the stream and the endpoint saw zone 2 entered.
C3_Witness ==
    \E s \in SessionIds :
        /\ Tracking(s)
        /\ CurrentStep(s) = 0 /\ StepEvents(s) = <<>>
        /\ TargetZone(s) = 1
        /\ 2 \in current_zone_detections[s]
        /\ s \in DOMAIN session_zone_tracking
        /\ session_zone_tracking[s].current_zone = Some(2)
        /\ Idle(s)

\* C4 (advance on correct entry): while a session is Tracking with
\* current_step = k < len(steps), an 'enter' for the target zone of step k
\* reported to the zone-detected endpoint appends exactly one StepEvent
\* numbered k+1 and increments current_step by one, and so does the step
\* completion of the streaming detector.
C4_AdvanceOnCorrectEntry ==
    [][\A s \in SessionIds :
          ( /\ Tracking(s)
            /\ CurrentStep(s) < Len(Steps(s))
            /\ \/ EndpointEnter(s, TargetZone(s))
               \/ check_step_advancement(s) )
          => /\ Len(StepEvents(s)') = Len(StepEvents(s)) + 1
             /\ StepNumberOf(StepEvents(s)'[Len(StepEvents(s)')])
                   = CurrentStep(s) + 1
             /\ CurrentStep(s)' = CurrentStep(s) + 1]_vars

\* C5: the number of recorded StepEvents equals current_step.
C5_LogLengthIsCurrentStep ==
    \A s \in DOMAIN active_sessions : Len(StepEvents(s)) = CurrentStep(s)

\* C6: the i-th StepEvent of a log (counting from 1) carries step number i.
C6_StepNumbersInOrder ==
    \A s \in DOMAIN active_sessions :
        \A i \in 1..Len(StepEvents(s)) : StepNumberOf(StepEvents(s)[i]) = i

\* C7: a session that has steps has status completed exactly when
\* current_step equals the number of steps.
C7_CompletedIffAllSteps ==
    \A s \in DOMAIN active_sessions :
        Steps(s) # <<>> =>
            (Status(s) = "completed" <=> CurrentStep(s) = Len(Steps(s)))

\* C8: once a session is completed or stopped, no operation invoked later
\* changes its current_step or its StepEvent log.
C8_TerminalFrozen ==
    [][\A s \in SessionIds :
          (Stays(s) /\ Status(s) = "completed" /\ Idle(s))
          => /\ CurrentStep(s)' = CurrentStep(s)
             /\ StepEvents(s)' = StepEvents(s)]_vars

\* C9: a session's status changes only from ready to tracking and from
\* tracking to completed.
C9_StatusOrder ==
    [][\A s \in SessionIds :
          (Stays(s) /\ Status(s)' # Status(s))
          => \/ Status(s) = "ready" /\ Status(s)' = "tracking"
             \/ Status(s) = "tracking" /\ Status(s)' = "completed"]_vars

\* C10 (idempotent stop): a stop of a session that was already stopped and
\* not started again leaves the stored results and the log as they were.
C10_StopIdempotent ==
    [][\A s \in SessionIds :
          (Stays(s) /\ stop_analysis(s) /\ Results(s) # None /\ ~IsTracking(s))
          => /\ Results(s)' = Results(s)
             /\ StepEvents(s)' = StepEvents(s)]_vars

\* C11: a stop of a session that is still ready is answered with an error
\* and leaves the session's status ready.
C11_StopFromReadyRejected ==
    [][\A s \in SessionIds :
          (Stays(s) /\ Status(s) = "ready" /\ stop_analysis(s))
          => /\ stop_analysis_code(s) # 200
             /\ Status(s)' = "ready"]_vars

\* C12: for a ready session whose process has no steps, start-tracking is
\* answered with an error and gives back the session as it was: ready, not
\* tracking, current_step 0 and an empty log.
C12_NoStepsStartFails ==
    \A s \in DOMAIN active_sessions :
        (Status(s) = "ready" /\ Steps(s) = <<>>)
        => /\ start_tracking_code(s) \notin {200, 404}
           /\ start_tracking_session(active_sessions[s]) = active_sessions[s]
           /\ Status(s) = "ready" /\ ~IsTracking(s)
           /\ CurrentStep(s) = 0 /\ StepEvents(s) = <<>>

\* C12 witness: a ready session of the process without steps, as the
\* rejected start-tracking leaves it.
C12_Witness ==
    \E s \in DOMAIN active_sessions :
        /\ Steps(s) = <<>> /\ Status(s) = "ready"
        /\ start_tracking_code(s) = 500
        /\ ~IsTracking(s)

\* C13: a zone signal or frame delivered to a session that is still ready
\* is answered without error, leaves current_step, the log and the status as
\* they were and schedules no step completion.
C13_ReadyIgnoresSignals ==
    [][\A s \in SessionIds :
          (Stays(s) /\ Status(s) = "ready" /\ SignalStep(s))
          => /\ CurrentStep(s)' = CurrentStep(s)
             /\ StepEvents(s)' = StepEvents(s)
             /\ Status(s)' = "ready"
             /\ stream_pc'[s] = None /\ frame_pc'[s] = None
             /\ handle_zone_detection_code(s) = 200
             /\ process_frame_code(s) = 200]_vars

\* C13 witness: a ready session with steps, still at step 0 with an empty
\* log, after the stream and the endpoint saw its first target zone entered.
C13_Witness ==
    \E s \in DOMAIN active_sessions :
        /\ Status(s) = "ready" /\ Steps(s) # <<>>
        /\ CurrentStep(s) = 0 /\ StepEvents(s) = <<>>
        /\ TargetZone(s) \in current_zone_detections[s]
        /\ s \in DOMAIN session_zone_tracking
        /\ session_zone_tracking[s].current_zone = Some(TargetZone(s))
        /\ Idle(s)

\* C14: once current_step equals the number of steps, a zone entry reported
\* on any path is answered without error, records nothing and leaves the
\* session as it was: the stream's check returns False, the zone-detected
\* endpoint and process_frame answer 200 and find no step to record.
C14_CompleteIgnoresEntries ==
    \A s \in DOMAIN active_sessions :
        (Steps(s) # <<>> /\ CurrentStep(s) = Len(Steps(s)))
        => /\ \A z \in ZoneIds :
                 /\ check_step_advancement_read(s, z) = None
                 /\ ~check_step_advancement_returns(s, z)
                 /\ zone_detected_enter(active_sessions[s], z, now)
                       = active_sessions[s]
           /\ \A k \in Frames :
                 check_step_progress_read(active_sessions[s].service,
                                          get_hand_positions(k)) = None
           /\ handle_zone_detection_code(s) = 200
           /\ process_frame_code(s) = 200

\* C14 witness: a session that is still tracking with both steps recorded
\* and nothing in flight, after the stream and the endpoint saw zone 1, the
\* first step's zone, entered.
C14_Witness ==
    \E s \in DOMAIN active_sessions :
        /\ IsTracking(s)
        /\ CurrentStep(s) = 2 /\ Len(Steps(s)) = 2 /\ Len(StepEvents(s)) = 2
        /\ Steps(s)[1].TargetZoneId = 1
        /\ 1 \in current_zone_detections[s]
        /\ s \in DOMAIN session_zone_tracking
        /\ session_zone_tracking[s].current_zone = Some(1)
        /\ Idle(s)

\* C15 (at most one advance under concurrent producers): a producer that
\* records a step finds current_step as it read it, so that its read, append
\* and write are not interleaved with another producer's; the step appends
\* one StepEvent and raises current_step by one.
C15_AtMostOnceAdvance ==
    [][\A s \in SessionIds :
          /\ (Stays(s) /\ check_step_advancement(s))
             => /\ stream_pc[s][1].current_step_idx = CurrentStep(s)
                /\ Len(StepEvents(s)') = Len(StepEvents(s)) + 1
                /\ CurrentStep(s)' = CurrentStep(s) + 1
          /\ (Stays(s) /\ check_step_progress(s))
             => /\ frame_pc[s][1].current_step_idx = CurrentStep(s)
                /\ Len(StepEvents(s)') = Len(StepEvents(s)) + 1
                /\ CurrentStep(s)' = CurrentStep(s) + 1]_vars

\* C16: an operation invoked with a session id that is not registered is
\* answered with a session-not-found error and changes no session: the
\* endpoints answer 404, and the stream's check of an entered zone reports
\* the miss to its caller.
C16_UnknownSessionReported ==
    [][\A s \in SessionIds :
          ( /\ s \notin DOMAIN active_sessions
            /\ \/ start_tracking(s)
               \/ stop_analysis(s)
               \/ get_analysis_status(s)
               \/ SignalStep(s) )
          => /\ active_sessions' = active_sessions
             /\ HttpReply(start_tracking_code(s)) = NotFoundReply
             /\ HttpReply(stop_analysis_code(s)) = NotFoundReply
             /\ HttpReply(get_analysis_status_code(s)) = NotFoundReply
             /\ HttpReply(handle_zone_detection_code(s)) = NotFoundReply
             /\ HttpReply(process_frame_code(s)) = NotFoundReply
             /\ \A z \in ZoneIds :
                   StreamEnter(s, z)
                   => FunctionReply(check_step_advancement_returns(s, z))
                         = NotFoundReply]_vars

\* C17: cleanup answers 200 whether or not the session is registered,
\* leaves the registry as it was when the session is absent, removes the
\* session when it is present and touches no other session.
C17_RemoveIdempotent ==
    [][\A s \in SessionIds :
          cleanup_session(s)
          => /\ cleanup_session_code(s) = 200
             /\ s \notin DOMAIN active_sessions'
             /\ s \notin DOMAIN active_sessions
                   => active_sessions' = active_sessions
             /\ \A x \in DOMAIN active_sessions \ {s} :
                   /\ x \in DOMAIN active_sessions'
                   /\ active_sessions'[x] = active_sessions[x]]_vars

\* C17 witness: a session id that was handed out and is no longer registered.
C17_Witness ==
    \E s \in issued : s \notin DOMAIN active_sessions

\* the zone z is entered where the session does not expect it: it is not
\* the current step's target, or all steps are recorded, or the endpoint
\* already tracks the hand inside z
WrongZone(s, z) ==
    Tracking(s) /\ CurrentStep(s) < Len(Steps(s)) /\ z # TargetZone(s)

AfterCompletion(s) == Steps(s) # <<>> /\ CurrentStep(s) >= Len(Steps(s))

RepeatedEnter(s, z) ==
    /\ s \in DOMAIN session_zone_tracking
    /\ session_zone_tracking[s].current_zone = Some(z)

\* C18: a wrong-zone entry, an entry after completion and a repeated Enter
\* are answered with success and leave the session's status as it was: the
\* zone-detected endpoint answers 200 and keeps the status, and the stream's
\* check of a wrong or late entry returns False and records nothing.
C18_NoisySignalsSucceed ==
    \A s \in DOMAIN active_sessions, z \in ZoneIds :
        /\ (WrongZone(s, z) \/ AfterCompletion(s) \/ RepeatedEnter(s, z))
           => /\ handle_zone_detection_code(s) = 200
              /\ zone_detected_enter(active_sessions[s], z, now).status
                    = Status(s)
        /\ (WrongZone(s, z) \/ AfterCompletion(s))
           => /\ FunctionReply(check_step_advancement_returns(s, z))
                    = FunctionReply(FALSE)
              /\ check_step_advancement_read(s, z) = None

\* C18 witness: a completed session with all steps recorded whose endpoint
\* and stream both saw zone 2 entered.
C18_Witness ==
    \E s \in DOMAIN active_sessions :
        /\ Status(s) = "completed" /\ AfterCompletion(s)
        /\ RepeatedEnter(s, 2)
        /\ 2 \in current_zone_detections[s]
        /\ handle_zone_detection_code(s) = 200

\* the report of a run that recorded no step
NoStepsReport == [adherence_score |-> 0, message |-> "No steps completed"]

RuleScore(elapsed, target) ==
    IF 10 * elapsed <= 12 * target
    THEN [num |-> 100, den |-> 1]
    ELSE IF elapsed <= 2 * target
         THEN LET part == 100 * target - (elapsed - target) * 100
              IN  [num |-> IF part > 0 THEN part ELSE 0, den |-> target]
         ELSE [num |-> 0, den |-> 1]

SameFraction(p, q) == p.num * q.den = q.num * p.den

RECURSIVE RuleScoreSum(_)
RuleScoreSum(events) ==
    IF events = <<>>
    THEN [num |-> 0, den |-> 1]
    ELSE LET h == RuleScore(Head(events).duration, Head(events).target_duration)
             t == RuleScoreSum(Tail(events))
         IN  [num |-> h.num * t.den + t.num * h.den, den |-> h.den * t.den]

\* C20: every recorded event's timing score is the rule's score for its
\* ratio of duration to target, two events of equal ratio score the same,
\* and the timing_adherence of a stored report is the mean of the rule's
\* scores of the log, rounded to hundredths of a percent.
C20_TimingScore ==
    \A s \in DOMAIN active_sessions :
        LET events == StepEvents(s) IN
        /\ \A i \in 1..Len(events) :
              SameFraction(timing_score(events[i]),
                           RuleScore(events[i].duration,
                                     events[i].target_duration))
        /\ \A i, j \in 1..Len(events) :
              events[i].duration * events[j].target_duration
                 = events[j].duration * events[i].target_duration
              => SameFraction(timing_score(events[i]), timing_score(events[j]))
        /\ ( /\ Results(s) # None /\ Results(s) # Some(None)
             /\ Results(s) # Some(Some(NoStepsReport)) )
           => Results(s)[1][1].timing_adherence
                 = RoundDiv(100 * RuleScoreSum(events).num,
                            RuleScoreSum(events).den * Len(events))

\* C20 witness: a stored report of a two-event log in which one event
\* scored partially and the other fully.
C20_Witness ==
    \E s \in DOMAIN active_sessions :
        /\ Results(s) # None /\ Results(s) # Some(None)
        /\ Results(s) # Some(Some(NoStepsReport))
        /\ Len(StepEvents(s)) = 2
        /\ 10 * StepEvents(s)[1].duration > 12 * StepEvents(s)[1].target_duration
        /\ StepEvents(s)[1].duration < 2 * StepEvents(s)[1].target_duration
        /\ 10 * StepEvents(s)[2].duration <= 12 * StepEvents(s)[2].target_duration
        /\ Results(s)[1][1].timing_adherence > 5000
        /\ Results(s)[1][1].timing_adherence < 10000

\* a stored report of a run that recorded at least one step
HasReport(s) ==
    /\ Results(s) # None /\ Results(s) # Some(None)
    /\ Results(s) # Some(Some(NoStepsReport))

Report(s) == Results(s)[1][1]

\* the run of the worked example: three steps of target 10, done in 10, 22
\* and 5 seconds
IsExampleRun(s) ==
    /\ Len(Steps(s)) = 3
    /\ \A i \in 1..3 : Steps(s)[i].Duration = 10
    /\ [i \in 1..Len(StepEvents(s)) |-> StepEvents(s)[i].duration] = <<10, 22, 5>>

\* C21: in every stored report of a non-empty log, completion_adherence is
\* 100 * len(step_events) / len(steps), and the overall adherence is 0.7
\* times the completion adherence plus 0.3 times the timing adherence (the
\* mean of the rule's scores), each rounded to hundredths of a percent; so
\* the reported overall figure is within a hundredth of the weighted sum of
\* the two reported figures.  The run with targets 10, 10, 10 done in 10,
\* 22, 5 scores 100, 0, 100 and reports 66.67, 100 and 90.0.
C21_ReportFormulas ==
    \A s \in DOMAIN active_sessions :
        HasReport(s) =>
            LET r == Report(s)
                c == Len(StepEvents(s))
                t == Len(Steps(s))
                T == RuleScoreSum(StepEvents(s))
                weighted == 7 * r.completion_adherence + 3 * r.timing_adherence
            IN  /\ r.completion_adherence = RoundDiv(100 * 100 * c, t)
                /\ r.overall_adherence
                      = RoundDiv(7 * (100 * 100 * c) * (T.den * c)
                                   + 3 * (100 * T.num) * t,
                                 10 * t * (T.den * c))
                /\ 10 * r.overall_adherence - weighted <= 10
                /\ weighted - 10 * r.overall_adherence <= 10
                /\ IsExampleRun(s) =>
                      /\ SameFraction(timing_score(StepEvents(s)[1]),
                                      [num |-> 100, den |-> 1])
                      /\ SameFraction(timing_score(StepEvents(s)[2]),
                                      [num |-> 0, den |-> 1])
                      /\ SameFraction(timing_score(StepEvents(s)[3]),
                                      [num |-> 100, den |-> 1])
                      /\ r.timing_adherence = 6667
                      /\ r.completion_adherence = 10000
                      /\ r.overall_adherence = 9000

\* C21 witness: the report of the worked example is stored.
C21_Witness ==
    \E s \in DOMAIN active_sessions :
        /\ HasReport(s)
        /\ IsExampleRun(s)
        /\ Report(s).overall_adherence = 9000

\* a zone row whose rectangle is not inverted
ValidGeometry(zone) == zone.Xstart <= zone.Xend /\ zone.Ystart <= zone.Yend

\* C22: no session exists whose environment holds a zone with Xstart > Xend
\* or Ystart > Yend: creating one is rejected and adds no session.
C22_InvalidZoneRejected ==
    \A s \in DOMAIN active_sessions :
        \A i \in 1..Len(active_sessions[s].service.current_zones) :
            ValidGeometry(active_sessions[s].service.current_zones[i])

\* the containment rule: the confidence is above the threshold and the
\* point is in the rectangle, its edges included
Contains(x, y, conf, threshold, x_min, x_max, y_min, y_max) ==
    /\ conf > threshold
    /\ x_min <= x /\ x <= x_max
    /\ y_min <= y /\ y <= y_max

\* the rule for a wrist keypoint and a rectangle given by corner and size
WristContained(w, zone, threshold) ==
    Contains(w.x, w.y, w.conf, threshold,
             zone.x, zone.x + zone.width, zone.y, zone.y + zone.height)

\* the rule for the hand position that get_hand_positions derives from a
\* wrist (moved by hand_offset_pixels) and a zone row
HandContained(w, dx, dy, zone) ==
    Contains(w.x + dx, w.y + dy, w.conf, conf_threshold,
             zone.Xstart, zone.Xend, zone.Ystart, zone.Yend)

\* C23: every containment test answers true exactly when the keypoint's
\* confidence is strictly above the threshold and the point is inside the
\* rectangle with both bounds of each axis included: the hand_detected the
\* script computed for the frame it last read, the script's test of any
\* frame against any zone, check_hand_in_zone of the stream, and
\* check_zone_collision on the hands of get_hand_positions.  A wrist on the
\* corner of a zone is inside, and one whose confidence equals the
\* threshold is outside.
C23_ContainmentRule ==
    /\ (tracker.target_zone_id # None /\ ~tracker.process_complete)
          => ( tracker.hand_detected
                 <=> \E i \in 1..Len(tracker.results) :
                        \/ WristContained(tracker.results[i].left_wrist,
                                          TrackerZone(tracker.target_zone_id[1]),
                                          tracker_conf_threshold)
                        \/ WristContained(tracker.results[i].right_wrist,
                                          TrackerZone(tracker.target_zone_id[1]),
                                          tracker_conf_threshold) )
    /\ \A k \in TrackerFrames, z \in DOMAIN process_sequence :
          (tracker_hand(k, TrackerZone(z)) # None)
             <=> \E i \in 1..Len(k) :
                    \/ WristContained(k[i].left_wrist, TrackerZone(z),
                                      tracker_conf_threshold)
                    \/ WristContained(k[i].right_wrist, TrackerZone(z),
                                      tracker_conf_threshold)
    /\ tracker_person_hand([left_wrist |-> Wrist(250, 100, 90),
                            right_wrist |-> Wrist(50, 50, 90)],
                           TrackerZone(1)) = Some("left")
    /\ tracker_person_hand([left_wrist |-> Wrist(150, 150, 50),
                            right_wrist |-> Wrist(50, 50, 90)],
                           TrackerZone(1)) = None
    /\ \A k \in Frames, z \in ZoneIds :
          /\ check_hand_in_zone(k, StreamZone(z), conf_threshold)
                <=> \E i \in 1..Len(k) :
                       \/ WristContained(k[i].left_wrist, StreamZone(z),
                                         conf_threshold)
                       \/ WristContained(k[i].right_wrist, StreamZone(z),
                                         conf_threshold)
          /\ check_zone_collision(get_hand_positions(k).left, ZoneRow(z))
                <=> \E i \in 1..Len(k) :
                       HandContained(k[i].left_wrist, hand_offset_pixels,
                                     hand_offset_pixels, ZoneRow(z))
          /\ check_zone_collision(get_hand_positions(k).right, ZoneRow(z))
                <=> \E i \in 1..Len(k) :
                       HandContained(k[i].right_wrist, 0 - hand_offset_pixels,
                                     hand_offset_pixels, ZoneRow(z))

\* C23 witness: the script read a frame whose left wrist lies on the
\* corner of its target zone and found the hand in the zone.
C23_Witness ==
    /\ tracker.results = <<[left_wrist |-> Wrist(250, 100, 90),
                            right_wrist |-> Wrist(50, 50, 90)]>>
    /\ tracker.target_zone_id = Some(1)
    /\ tracker.hand_detected
    /\ tracker.current_step = 1

\* C24: after any frame the stream observes, the latch of a zone is set
\* exactly when the frame shows the hand contained in the zone: Enter when
\* it was clear and the hand is contained, Exit when it was set and the
\* hand is not contained, a frame without any person included, and no
\* change otherwise.
C24_LatchFollowsContainment ==
    \A s \in SessionIds, z \in ZoneIds, k \in Frames :
        (z \in zone_detections_after(current_zone_detections[s], z, k))
           <=> check_hand_in_zone(k, StreamZone(z), conf_threshold)

\* an 'exit' event of the zone-detected endpoint for a known session
EndpointExit(s, z) == Active(s) /\ handle_zone_detection(s, z, "exit", now)

\* the stream sees the hand outside a zone whose latch is set
StreamExit(s, z) ==
    /\ z \in current_zone_detections[s]
    /\ z \notin current_zone_detections'[s]

\* C25: an Exit, of the endpoint or of the stream, leaves every session as
\* it is (current_step, step_events and status included) and starts no
\* step advancement; it clears the latch of its zone, so that the next
\* Enter of the zone is taken as a new one.
C25_ExitOnlyClearsLatch ==
    [][\A s \in SessionIds, z \in ZoneIds :
          /\ EndpointExit(s, z)
                => /\ active_sessions' = active_sessions
                   /\ session_zone_tracking'[s].current_zone # Some(z)
          /\ StreamExit(s, z)
                => /\ active_sessions' = active_sessions
                   /\ stream_pc'[s] = None]_vars

\* C25 witness: a tracking session that recorded a step, with no zone
\* tracked by the endpoint and the stream's latch clear, as an Exit
\* leaves them.
C25_Witness ==
    \E s \in DOMAIN active_sessions :
        /\ Tracking(s)
        /\ CurrentStep(s) = 1
        /\ s \in DOMAIN session_zone_tracking
        /\ session_zone_tracking[s].current_zone = None
        /\ current_zone_detections[s] = {}
        /\ Idle(s)

\* C26: whenever the script appends a step time, it is the time of this
\* entry minus the time of the entry that completed the previous step, or
\* minus the start of the process for the first step.
C26_ElapsedSincePrevious ==
    [][Len(tracker'.step_times) > Len(tracker.step_times)
         => tracker'.step_times[Len(tracker'.step_times)]
               = tracker'.entry_time[1]
                   - (IF tracker.step_times = <<>>
                      THEN tracker'.process_start_time[1]
                      ELSE tracker.entry_time[1])]_vars

\* the reporter delivered the Enter and the Exit of every step of a session
\* that has steps
RunDelivered(s) ==
    /\ Active(s)
    /\ Steps(s) # <<>>
    /\ reported[s].path # None
    /\ reported[s].count = 2 * Len(Steps(s))

\* C27: once the reporter has delivered, in order and each followed by an
\* Exit, an Enter for the target zone of every step of a tracking session,
\* the session eventually has current_step = n and status completed,
\* whether the endpoint or the stream carried the signals.
C27_ReportedRunCompletes ==
    \A s \in SessionIds :
        RunDelivered(s) ~> ( /\ Active(s)
                            /\ CurrentStep(s) = Len(Steps(s))
                            /\ Status(s) = "completed" )

\* C28: every stored report of a non-empty log has an overall adherence
\* between 0 and 100 (in hundredths of a percent: 0 and 10000) and counts
\* no more completed steps than the process has.
C28_ReportInRange ==
    \A s \in DOMAIN active_sessions :
        HasReport(s) =>
            /\ Report(s).overall_adherence >= 0
            /\ Report(s).overall_adherence <= 100 * 100
            /\ Report(s).completed_steps <= Report(s).total_steps

\* C29: no step of the program changes the steps of a session that exists
\* before and after it: not a zone signal or a frame, not start-tracking,
\* stop or status, and not an edit of the process's steps in the store,
\* which the session never reads again.
C29_StepsFixedAtCreation ==
    [][\A s \in SessionIds :
          (Active(s) /\ Active(s)') => Steps(s)' = Steps(s)]_vars

\* C29 witness: a session that was stopped with a report still has the
\* steps it was created with, while the store now holds other steps for
\* its process.
C29_Witness ==
    \E s \in DOMAIN active_sessions :
        /\ HasReport(s)
        /\ Steps(s) = StoredProcessSteps(active_sessions[s].process_id)
        /\ Steps(s) # get_process_steps(active_sessions[s].process_id)

\* the frame shows a wrist contained in zone z of the script
HandSeenIn(keypoints, z) ==
    \E i \in 1..Len(keypoints) :
        \/ WristContained(keypoints[i].left_wrist, TrackerZone(z),
                          tracker_conf_threshold)
        \/ WristContained(keypoints[i].right_wrist, TrackerZone(z),
                          tracker_conf_threshold)

\* C30: while the process is not complete, a pass of the script whose frame
\* is the first to show the hand inside the current step's target zone (the
\* frame before did not) advances the step, whatever was latched for the
\* zone of the step before.
C30_FirstEntryAdvances ==
    [][( /\ ~tracker.process_complete
         /\ tracker.current_step < Len(process_sequence)
         /\ HandSeenIn(tracker'.results,
                       process_sequence[tracker.current_step + 1])
         /\ ~HandSeenIn(tracker.results,
                        process_sequence[tracker.current_step + 1]) )
         => tracker'.current_step = tracker.current_step + 1]_vars

\* the progress a session has recorded: where its run started, its log and
\* its step pointer
Progress(s) ==
    [start_time |-> active_sessions[s].service.session_data.start_time,
     step_events |-> StepEvents(s),
     current_step |-> CurrentStep(s)]

\* C31 (start-tracking on a tracking session): over every start-tracking
\* request for a session that is tracking and has recorded a step, the
\* session's current_step, step_events and start_time stay as they were.
C31_RestartKeepsProgress ==
    [][\A s \in SessionIds :
          (/\ Active(s)
           /\ Status(s) = "tracking"
           /\ IsTracking(s)
           /\ StepEvents(s) # <<>>
           /\ start_tracking(s)) =>
              Progress(s)' = Progress(s)]_vars

\* stop_tracking has run for session s: it cleared is_tracking and the
\* session holds the report it returned
StoppedWithReport(s) ==
    /\ ~IsTracking(s)
    /\ Results(s) # None
    /\ Results(s) # Some(None)

\* the log the report of session s was computed from
ReportedLog(s) ==
    IF "step_details" \in DOMAIN Results(s)[1][1]
    THEN Results(s)[1][1].step_details
    ELSE <<>>

\* C32 (stop against a concurrent signal): once stop_tracking has cleared
\* is_tracking, no step of a zone-signal path appends a StepEvent or changes
\* current_step, and the report stop returned shows the session's final log.
C32_StopFreezesLog ==
    [][\A s \in SessionIds :
          (Stays(s) /\ StoppedWithReport(s) /\ SignalStep(s)) =>
              /\ StepEvents(s)' = StepEvents(s)
              /\ CurrentStep(s)' = CurrentStep(s)
              /\ ReportedLog(s)' = StepEvents(s)']_vars

\* what the claim calls the state of a session: its status, step pointer and
\* log, and its dwell state on the endpoint and on the stream
SessionView(s) ==
    [session |-> IF s \in DOMAIN active_sessions
                 THEN Some([status |-> Status(s),
                            current_step |-> CurrentStep(s),
                            step_events |-> StepEvents(s)])
                 ELSE None,
     zone_track |-> IF s \in DOMAIN session_zone_tracking
                    THEN Some(session_zone_tracking[s])
                    ELSE None,
     latch |-> current_zone_detections[s]]

\* a signal, start-tracking, stop or cleanup applied to session id a
AppliedTo(a) ==
    \/ start_tracking(a)
    \/ stop_analysis(a)
    \/ cleanup_session(a)
    \/ \E z \in PairZones, k \in PairFrames : generate_frames(a, z, k)
    \/ check_step_advancement(a)
    \/ \E z \in PairZones, t \in EventTypes :
          handle_zone_detection(a, z, t, now)

\* C33 (session isolation): a signal, start-tracking, stop or cleanup applied
\* to one session id leaves the status, current_step, step_events and dwell
\* state of every session with a different id as they were.
C33_SessionsIsolated ==
    [][\A a \in SessionPair, b \in SessionPair :
          (a # b /\ AppliedTo(a)) => SessionView(b)' = SessionView(b)]_vars

\* one session has completed its process and holds a latch and a zone track
\* while the other, registered and tracking, has recorded nothing
C33_Witness ==
    /\ Active("s1") /\ Active("s2")
    /\ Status("s1") = "completed" /\ CurrentStep("s1") = 2
    /\ current_zone_detections["s1"] = {1}
    /\ "s1" \in DOMAIN session_zone_tracking
    /\ Status("s2") = "tracking" /\ CurrentStep("s2") = 0
    /\ StepEvents("s2") = <<>>
    /\ current_zone_detections["s2"] = {}
    /\ "s2" \notin DOMAIN session_zone_tracking

\* a supplied step the API must refuse
InvalidStep(step) ==
    \/ \E f \in {"StepName", "TargetZoneId", "Duration", "Description"} :
          f \notin DOMAIN step
    \/ step.Duration <= 0

HasInvalidStep(steps) == \E i \in 1..Len(steps) : InvalidStep(steps[i])

\* the posted lists that hold an invalid step
InvalidStepLists == {steps \in RequestStepLists : HasInvalidStep(steps)}

\* C34 (invalid input is all-or-nothing): a save request whose list holds a
\* step that lacks a required field or has Duration <= 0 is answered 400,
\* opens no transaction, and leaves the stored steps of every process as
\* they were.
C34_InvalidSaveRejected ==
    [][\A t \in SaverIds, p \in SaveProcessIds, steps \in InvalidStepLists :
          save_process_steps(t, p, steps) =>
              /\ saving'[t].status = Some(400)
              /\ saving'[t].txn = None
              /\ ProcessSteps' = ProcessSteps]_vars

\* one thread has replaced the steps of process 1, and another was refused
\* afterwards: the rows of the first are the active ones
C34_Witness ==
    \E t \in SaverIds, u \in SaverIds :
        /\ saving[t].status = Some(400) /\ saving[t].txn = None
        /\ saving[u].status = Some(200) /\ saving[u].txn = None
        /\ ProcessSteps[1] =
              InsertedRows(<<RequestStep(1, 2, 1), RequestStep(2, 1, 1)>>)

\* C35 (save replaces the steps): when DatabaseService.save_process_steps
\* returns, the active steps of the process are exactly the supplied steps,
\* in the supplied order and numbered 1..n; no row that was active before
\* is among them.
C35_SaveReplaces ==
    [][\A t \in SaverIds :
          save_process_steps_returns(t) =>
              ProcessSteps'[Txn(t).process_id] = InsertedRows(Txn(t).steps)]_vars

\* the rows thread t has inserted so far
InsertedSoFar(t) ==
    [i \in 1..Txn(t).inserted |-> InsertedRow(i, Txn(t).steps[i])]

\* what get_process_steps returns while thread t replaces the steps of a
\* process holds a row that was active before the save and a row of the save
OldAndNewActive(t) ==
    /\ saving[t].txn # None
    /\ LET rows == ProcessSteps[Txn(t).process_id] IN
       /\ Deactivate(rows, Txn(t).deactivated) # rows
       /\ Deactivate(rows, InsertedSoFar(t)) # rows

\* C36 (the replacement is atomic): no state shows old and new steps of a
\* process active together, and when an insert fails part-way the active
\* steps of the process are exactly the steps that were active before.
C36_ReplacementAtomic ==
    [][\A t \in SaverIds :
          /\ ~OldAndNewActive(t)'
          /\ create_process_step_raises(t) =>
                ProcessSteps'[Txn(t).process_id] = Txn(t).deactivated]_vars

====
